---- MODULE Spec2Model ----
(***************************************************************************)
(* Karger / Karger-Stein minimum cut on a union-find (src/src/karger.hpp). *)
(* Vertices and union-find elements are indexed from 0 as in the source;   *)
(* an edge vector is a sequence, the iterator  begin + k  being element    *)
(* k + 1 of the sequence.                                                  *)
(***************************************************************************)
EXTENDS Integers, Sequences, FiniteSets, TLC

VARIABLES
    uf,       \* the UnionFind being worked on (UnionFind object / local `uf`)
    op,       \* the last UnionFind call made, with the state it was made in
    graph,    \* the caller's EdgesVectorGraph: [n, edges]
    orig,     \* the edge vector as the caller passed it
    algo,     \* which entry point runs
    pc,       \* position in the running function
    start,    \* the cursor `start`, as an offset from begin(edges)
    m,        \* the loop variable `m`
    graphs,   \* the work stack of ContractedGraph (top is the last element)
    cur,      \* the popped ContractedGraph `graph` of the main loop
    nb_vertices, \* the target of the running contract(graph, nb_vertices)
    best,     \* best_minimum_cut
    leaves,   \* the cut sizes the leaf tasks computed, in order
    result,   \* the returned GraphCut
    parts     \* what get_partitions() returned on the result

vars == <<uf, op, graph, orig, algo, pc, start, m, graphs, cur, nb_vertices,
          best, leaves, result, parts>>

----------------------------------------------------------------------------
(* Bounds of the model.                                                    *)

\* UnionFind objects explored on their own have 1..MaxElems elements.
MaxElems == 4

\* The enumerated input graphs have 2..MaxN vertices and at most MaxEdges
\* edges (parallel edges and both orientations of an edge included).
MaxN == 4
MaxEdges == 3

\* A random index is drawn among the first MaxDraw + 1 remaining edges: that
\* is every index for the enumerated graphs (MaxDraw >= MaxEdges - 1), and a
\* prefix of the remaining edges for the larger fixed instances.
MaxDraw == 2

\* The elements of the UnionFind of SpecDeep.
DeepElems == 8

----------------------------------------------------------------------------
(* UnionFind<T>                                                            *)

Nodes(n) == 0 .. (n - 1)

\* UnionFind(T n): n singletons, nb_subsets = n.
UnionFind(n) ==
    [subsets |-> [i \in Nodes(n) |-> [id |-> i, size |-> 1]], nb_subsets |-> n]

\* First loop of find: walk the parent ids up to the root.
RECURSIVE FindRoot(_, _)
FindRoot(S, x) == IF S[x].id = x THEN x ELSE FindRoot(S, S[x].id)

\* A compression that repoints the element find was called on, no other.
CompressFirst(S, x, root) ==
    IF S[x].id = root THEN S ELSE [S EXCEPT ![x].id = root]

\* Second loop of find: repoint every element of the walk to the root.
RECURSIVE Compress(_, _, _)
Compress(S, x, root) ==
    IF S[x].id = root THEN S
    ELSE Compress([S EXCEPT ![x].id = root], S[x].id, root)

\* A find that looks one parent up (`if` for `while`) and compresses nothing.
find_one_hop(u, x) == [ret |-> u.subsets[x].id, uf |-> u]

\* find(x): the root, and the object after path compression.
find(u, x) ==
    LET root == FindRoot(u.subsets, x)
    IN  [ret |-> root,
         uf  |-> [u EXCEPT !.subsets = Compress(u.subsets, x, root)]]

\* A link that puts the root of x's subset under the other on equal sizes.
LinkTieUnderY(S, i, j) ==
    IF S[i].size <= S[j].size
    THEN [S EXCEPT ![i].id = j, ![j].size = S[j].size + S[i].size]
    ELSE [S EXCEPT ![j].id = i, ![i].size = S[i].size + S[j].size]

\* The two branches of merge once the roots i # j are known.
Link(S, i, j) ==
    IF S[i].size < S[j].size
    THEN [S EXCEPT ![i].id = j, ![j].size = S[j].size + S[i].size]
    ELSE [S EXCEPT ![j].id = i, ![i].size = S[i].size + S[j].size]

\* A merge without the early return on i == j.
merge_no_return(u, x, y) ==
    LET fi == find(u, x)
        fj == find(fi.uf, y)
    IN  [subsets    |-> Link(fj.uf.subsets, fi.ret, fj.ret),
         nb_subsets |-> fj.uf.nb_subsets - 1]

\* A merge that links the elements x and y themselves, not their roots.
merge_elements(u, x, y) ==
    LET fi == find(u, x)
        fj == find(fi.uf, y)
    IN  IF fi.ret = fj.ret THEN fj.uf
        ELSE [subsets    |-> Link(fj.uf.subsets, x, y),
              nb_subsets |-> fj.uf.nb_subsets - 1]

\* merge(x, y).
merge(u, x, y) ==
    LET fi == find(u, x)
        fj == find(fi.uf, y)
        i  == fi.ret
        j  == fj.ret
    IN  IF i = j THEN fj.uf
        ELSE [subsets    |-> Link(fj.uf.subsets, i, j),
              nb_subsets |-> fj.uf.nb_subsets - 1]

\* connected(x, y): find(x) == find(y); both finds compress.
connected(u, x, y) ==
    LET fx == find(u, x)
        fy == find(fx.uf, y)
    IN  [ret |-> (fx.ret = fy.ret), uf |-> fy.uf]

----------------------------------------------------------------------------
(* Reading a UnionFind state (used to state the properties).               *)

Elems(u) == DOMAIN u.subsets

Roots(u) == {i \in Elems(u) : u.subsets[i].id = i}

\* The representative of x: the fixpoint of the parent ids above x.
RECURSIVE RootOf(_, _)
RootOf(u, x) ==
    IF u.subsets[x].id = x THEN x ELSE RootOf(u, u.subsets[x].id)

\* Some element sits two or more parent steps below its root.
Deep(u) ==
    \E i \in Elems(u) : u.subsets[u.subsets[i].id].id # u.subsets[i].id

SameSubset(u, a, b) == RootOf(u, a) = RootOf(u, b)

Class(u, x) == {a \in Elems(u) : SameSubset(u, a, x)}

Partition(u) == {Class(u, x) : x \in Elems(u)}

NoOp == [name |-> "none"]

----------------------------------------------------------------------------
(* A UnionFind object under arbitrary calls.                               *)

Idle ==
    /\ graph = [n |-> 0, edges |-> <<>>] /\ orig = <<>> /\ algo = "none"
    /\ start = 0 /\ m = 0 /\ graphs = <<>> /\ cur = [n |-> 0, edges |-> <<>>]
    /\ nb_vertices = 0
    /\ best = [cut_size |-> 0, uf |-> UnionFind(0)] /\ leaves = <<>>
    /\ result = [cut_size |-> 0, uf |-> UnionFind(0)] /\ parts = <<>>

InitUF ==
    /\ \E n \in 1 .. MaxElems : uf = UnionFind(n)
    /\ op = NoOp
    /\ pc = "object"
    /\ Idle

UFFrame == UNCHANGED <<graph, orig, algo, pc, start, m, graphs, cur,
                       nb_vertices, best, leaves, result, parts>>

CallMerge ==
    /\ pc = "object"
    /\ \E x \in Elems(uf), y \in Elems(uf) :
         /\ uf' = merge(uf, x, y)
         /\ op' = [name |-> "merge", x |-> x, y |-> y, pre |-> uf]
    /\ UFFrame

CallFind ==
    /\ pc = "object"
    /\ \E x \in Elems(uf) :
         LET r == find(uf, x)
         IN  /\ uf' = r.uf
             /\ op' = [name |-> "find", x |-> x, pre |-> uf, ret |-> r.ret]
    /\ UFFrame

CallConnected ==
    /\ pc = "object"
    /\ \E x \in Elems(uf), y \in Elems(uf) :
         LET r == connected(uf, x, y)
         IN  /\ uf' = r.uf
             /\ op' = [name |-> "connected", x |-> x, y |-> y, pre |-> uf,
                       ret |-> r.ret]
    /\ UFFrame

NextUF == CallMerge \/ CallFind \/ CallConnected

SpecUF == InitUF /\ [][NextUF]_vars

\* A UnionFind of DeepElems elements merged pair by pair, the roots of equal
\* subsets with one another, so that finds meet paths of three parent steps.
DeepPairs ==
    {<<0, 1>>, <<2, 3>>, <<4, 5>>, <<6, 7>>, <<0, 2>>, <<4, 6>>, <<0, 4>>}

InitDeep ==
    /\ uf = UnionFind(DeepElems)
    /\ op = NoOp
    /\ pc = "object"
    /\ Idle

CallMergePair ==
    /\ pc = "object"
    /\ \E p \in DeepPairs :
         /\ uf' = merge(uf, p[1], p[2])
         /\ op' = [name |-> "merge", x |-> p[1], y |-> p[2], pre |-> uf]
    /\ UFFrame

NextDeep == CallMergePair \/ CallFind

SpecDeep == InitDeep /\ [][NextDeep]_vars

----------------------------------------------------------------------------
(* Graphs.                                                                 *)

Edge(t, h) == [tail |-> t, head |-> h]

EdgeSet(n) == {e \in [tail : Nodes(n), head : Nodes(n)] : e.tail # e.head}

Rank(e, n) == e.tail * n + e.head

\* The vertices reachable from the vertices of `seen` along the edges.
RECURSIVE Reach(_, _)
Reach(edges, seen) ==
    LET more == {v \in {edges[k].tail : k \in DOMAIN edges} \cup
                       {edges[k].head : k \in DOMAIN edges} :
                   \E k \in DOMAIN edges :
                       \/ edges[k].tail \in seen /\ edges[k].head = v
                       \/ edges[k].head \in seen /\ edges[k].tail = v}
    IN  IF more \subseteq seen THEN seen ELSE Reach(edges, seen \cup more)

IsConnected(g) == Reach(g.edges, {0}) = Nodes(g.n)

\* Edge vectors of k edges on n vertices, one per multiset of edges.
EdgeLists(n, k) ==
    {s \in [1 .. k -> EdgeSet(n)] :
        \A i \in 1 .. (k - 1) : Rank(s[i], n) <= Rank(s[i + 1], n)}

\* The enumerated inputs: every connected multigraph within the bounds.
SmallGraphs ==
    {g \in UNION {UNION {{[n |-> n, edges |-> s] : s \in EdgeLists(n, k)} :
                           k \in (n - 1) .. MaxEdges} : n \in 2 .. MaxN} :
        IsConnected(g)}

\* A 5-vertex tree: two pairs joined, and a pendant vertex.
Graph5 ==
    [n |-> 5,
     edges |-> <<Edge(0, 1), Edge(2, 3), Edge(1, 2), Edge(0, 4)>>]

\* A 7-vertex input (the smallest size the recursive schedule splits): a
\* path with one doubled edge.
Graph7 ==
    [n |-> 7,
     edges |-> <<Edge(0, 1), Edge(0, 1), Edge(1, 2), Edge(2, 3), Edge(3, 4),
                 Edge(4, 5), Edge(5, 6)>>]

\* The graph of minimal_example().
ExampleGraph ==
    [n |-> 8,
     edges |-> <<Edge(0, 1), Edge(0, 2), Edge(0, 3), Edge(1, 2), Edge(1, 3),
                 Edge(2, 3), Edge(4, 5), Edge(4, 6), Edge(4, 7), Edge(5, 6),
                 Edge(5, 7), Edge(6, 7), Edge(1, 4), Edge(3, 4)>>]

----------------------------------------------------------------------------
(* The contraction loop and what follows it.                               *)

\* An exchange that copies the chosen edge over the one at the cursor.
IterCopy(edges, i, j) == [edges EXCEPT ![i] = edges[j]]

\* std::iter_swap(start, start + r).
IterSwap(edges, i, j) == [edges EXCEPT ![i] = edges[j], ![j] = edges[i]]

\* std::uniform_int_distribution<>{0, m}: the indices a draw can return.
Draw(mm, bound) == 0 .. (IF mm < bound THEN mm ELSE bound)

\* A loop that stops one subset too late.
LoopExitLate(u, k) == u.nb_subsets = k - 1

\* The loop condition  uf.nb_subsets != k , negated: the loop is left.
LoopExit(u, k) == u.nb_subsets = k

\* A count_if whose predicate lost its negation: counts the connected edges.
RECURSIVE CountIfConnected(_, _, _, _)
CountIfConnected(edges, k, u, acc) ==
    IF k > Len(edges) THEN [count |-> acc, uf |-> u]
    ELSE LET c == connected(u, edges[k].tail, edges[k].head)
         IN  CountIfConnected(edges, k + 1, c.uf,
                              IF c.ret THEN acc + 1 ELSE acc)

\* std::count_if(start, end, !uf.connected(tail, head)): the edges are tested
\* in order and every test runs find, so the union-find is compressed on the way.
RECURSIVE CountIf(_, _, _, _)
CountIf(edges, k, u, acc) ==
    IF k > Len(edges) THEN [count |-> acc, uf |-> u]
    ELSE LET c == connected(u, edges[k].tail, edges[k].head)
         IN  CountIf(edges, k + 1, c.uf, IF c.ret THEN acc ELSE acc + 1)

\* A copy that keeps the self-loops (std::copy for std::copy_if).
CopyAll(edges, k, u, out) ==
    [edges |-> SubSeq(edges, k, Len(edges)), uf |-> u]

\* std::copy_if(start, end, back_inserter(edges), !uf.connected(tail, head)).
RECURSIVE CopyIf(_, _, _, _)
CopyIf(edges, k, u, out) ==
    IF k > Len(edges) THEN [edges |-> out, uf |-> u]
    ELSE LET c == connected(u, edges[k].tail, edges[k].head)
         IN  CopyIf(edges, k + 1, c.uf,
                    IF c.ret THEN out ELSE Append(out, edges[k]))

\* std::max for std::min.
MaxCut(a, b) == IF a.cut_size < b.cut_size THEN b ELSE a

\* GraphCut::operator< and std::min(a, b): b when b < a, else a.
MinCut(a, b) == IF b.cut_size < a.cut_size THEN b ELSE a

\* A split target that contracts an internal task down to one vertex.
SplitTargetOne(n) == 1

\* node_t t = 1 + std::ceil(graph.n * INV_SQRT_2): ceil(n / sqrt 2) is the
\* least c with 2 c^2 >= n^2.
CeilInvSqrt2(n) ==
    CHOOSE c \in 0 .. n :
        2 * c * c >= n * n /\ (c = 0 \/ 2 * (c - 1) * (c - 1) < n * n)

SplitTarget(n) == 1 + CeilInvSqrt2(n)

\* The loop of get_partitions(): vertex i goes to P when its stored id equals
\* the stored id of vertex 0, else to Q.
RECURSIVE PartitionLoop(_, _, _, _)
PartitionLoop(S, i, P, Q) ==
    IF i >= Cardinality(DOMAIN S) THEN [P |-> P, Q |-> Q]
    ELSE IF S[i].id = S[0].id
         THEN PartitionLoop(S, i + 1, Append(P, i), Q)
         ELSE PartitionLoop(S, i + 1, P, Append(Q, i))

get_partitions(c) == PartitionLoop(c.uf.subsets, 0, <<>>, <<>>)

NoCut == [cut_size |-> 0, uf |-> UnionFind(0)]
NoGraph == [n |-> 0, edges |-> <<>>]

----------------------------------------------------------------------------
(* karger_union_find                                                       *)

\* The state at the head of the loop, first iteration.
InitKarger(g) ==
    /\ graph = g /\ orig = g.edges /\ algo = "karger"
    /\ uf = UnionFind(g.n) /\ op = NoOp
    /\ start = 0 /\ m = Len(g.edges) - 1
    /\ pc = "karger_loop"
    /\ graphs = <<>> /\ cur = NoGraph /\ nb_vertices = 2
    /\ best = NoCut /\ leaves = <<>> /\ result = NoCut /\ parts = <<>>

\* One iteration: swap a random remaining edge to the cursor, merge its ends.
KargerStep(bound) ==
    /\ pc = "karger_loop"
    /\ ~LoopExit(uf, 2)
    /\ \E r \in Draw(m, bound) :
         LET edges == IterSwap(graph.edges, start + 1, start + 1 + r)
             e     == edges[start + 1]
         IN  /\ graph' = [graph EXCEPT !.edges = edges]
             /\ uf' = merge(uf, e.tail, e.head)
    /\ start' = start + 1
    /\ m' = m - 1
    /\ UNCHANGED <<op, orig, algo, pc, graphs, cur, nb_vertices, best, leaves,
                   result, parts>>

\* Loop exit: count the unconsumed edges whose ends are not connected.
KargerReturn ==
    /\ pc = "karger_loop"
    /\ LoopExit(uf, 2)
    /\ LET c == CountIf(graph.edges, start + 1, uf, 0)
       IN  /\ result' = [cut_size |-> c.count, uf |-> c.uf]
           /\ uf' = c.uf
    /\ pc' = "returned"
    /\ UNCHANGED <<op, graph, orig, algo, start, m, graphs, cur, nb_vertices,
                   best, leaves, parts>>

----------------------------------------------------------------------------
(* karger_stein_union_find                                                 *)

\* The state at the head of the main loop: the sentinel and the first task.
InitStein(g) ==
    /\ graph = g /\ orig = g.edges /\ algo = "stein"
    /\ best = [cut_size |-> g.n, uf |-> UnionFind(0)]
    /\ graphs = <<[n |-> g.n, edges |-> g.edges, uf |-> UnionFind(g.n)]>>
    /\ pc = "stein_main"
    /\ uf = UnionFind(0) /\ op = NoOp /\ start = 0 /\ m = 0
    /\ cur = NoGraph /\ nb_vertices = 0
    /\ leaves = <<>> /\ result = NoCut /\ parts = <<>>

Top(st) == st[Len(st)]
Pop(st) == SubSeq(st, 1, Len(st) - 1)

\* An entry that takes the number of edges as the last offset of a draw.
EnterContractLong(g, k) ==
    /\ uf' = g.uf
    /\ start' = 0
    /\ m' = Len(g.edges)
    /\ nb_vertices' = k

\* Entry of contract(graph, k): copy the task's union-find, cursor at begin.
EnterContract(g, k) ==
    /\ uf' = g.uf
    /\ start' = 0
    /\ m' = Len(g.edges) - 1
    /\ nb_vertices' = k

\* top(), pop(), n <= 6: contract(graph, 2) begins.
PopLeaf ==
    /\ pc = "stein_main" /\ graphs # <<>>
    /\ Top(graphs).n <= 6
    /\ cur' = Top(graphs) /\ graphs' = Pop(graphs)
    /\ EnterContract(Top(graphs), 2)
    /\ pc' = "leaf_loop"
    /\ UNCHANGED <<op, graph, orig, algo, best, leaves, result, parts>>

\* top(), pop(), n > 6: the first contract(graph, t) begins.
PopInternal ==
    /\ pc = "stein_main" /\ graphs # <<>>
    /\ Top(graphs).n > 6
    /\ cur' = Top(graphs) /\ graphs' = Pop(graphs)
    /\ EnterContract(Top(graphs), SplitTarget(Top(graphs).n))
    /\ pc' = "first_loop"
    /\ UNCHANGED <<op, graph, orig, algo, best, leaves, result, parts>>

\* A contract that merges in the union-find of the task itself.
PermutedShared(g, edges, u) == [g EXCEPT !.edges = edges, !.uf = u]

\* The task contract was called on, after an iteration: contract merges in
\* its own copy u of graph.uf, only graph.edges is permuted in place.
Permuted(g, edges, u) == [g EXCEPT !.edges = edges]

\* One iteration of the loop of contract.
ContractStep(bound) ==
    /\ pc \in {"leaf_loop", "first_loop", "second_loop"}
    /\ ~LoopExit(uf, nb_vertices)
    /\ \E r \in Draw(m, bound) :
         LET edges == IterSwap(cur.edges, start + 1, start + 1 + r)
             e     == edges[start + 1]
             u     == merge(uf, e.tail, e.head)
         IN  /\ cur' = Permuted(cur, edges, u)
             /\ uf' = u
    /\ start' = start + 1
    /\ m' = m - 1
    /\ UNCHANGED <<op, graph, orig, algo, pc, graphs, nb_vertices, best,
                   leaves, result, parts>>

\* The ContractedGraph contract returns: the unconsumed edges without the
\* self-loops, and the contracted union-find.
Contracted ==
    LET c == CopyIf(cur.edges, start + 1, uf, <<>>)
    IN  [n |-> nb_vertices, edges |-> c.edges, uf |-> c.uf]

\* cut(ContractedGraph&&).
cut(g) == [cut_size |-> Len(g.edges), uf |-> g.uf]

\* Leaf: best_minimum_cut = std::min(best_minimum_cut, cut(contract(graph, 2))).
LeafDone ==
    /\ pc = "leaf_loop"
    /\ LoopExit(uf, nb_vertices)
    /\ LET c == cut(Contracted)
       IN  /\ best' = MinCut(best, c)
           /\ leaves' = Append(leaves, c)
           /\ uf' = c.uf
    /\ pc' = "stein_main"
    /\ UNCHANGED <<op, graph, orig, algo, start, m, graphs, cur, nb_vertices,
                   result, parts>>

\* First child pushed; the second contract(graph, t) begins on the same task.
FirstDone ==
    /\ pc = "first_loop"
    /\ LoopExit(uf, nb_vertices)
    /\ graphs' = Append(graphs, Contracted)
    /\ EnterContract(cur, nb_vertices)
    /\ pc' = "second_loop"
    /\ UNCHANGED <<op, graph, orig, algo, cur, best, leaves, result, parts>>

\* Second child pushed.
SecondDone ==
    /\ pc = "second_loop"
    /\ LoopExit(uf, nb_vertices)
    /\ LET g == Contracted
       IN  /\ graphs' = Append(graphs, g)
           /\ uf' = g.uf
    /\ pc' = "stein_main"
    /\ UNCHANGED <<op, graph, orig, algo, start, m, cur, nb_vertices, best,
                   leaves, result, parts>>

\* Stack empty: return best_minimum_cut.
SteinReturn ==
    /\ pc = "stein_main" /\ graphs = <<>>
    /\ result' = best
    /\ pc' = "returned"
    /\ UNCHANGED <<uf, op, graph, orig, algo, start, m, graphs, cur,
                   nb_vertices, best, leaves, parts>>

----------------------------------------------------------------------------
(* The caller reads the partitions of the returned cut.                    *)

CallerFrame == UNCHANGED <<uf, op, graph, orig, algo, start, m, graphs, cur,
                           nb_vertices, best, leaves, result>>

GetPartitions ==
    /\ pc = "returned"
    /\ DOMAIN result.uf.subsets # {}
    /\ parts' = get_partitions(result)
    /\ pc' = "done"
    /\ CallerFrame

\* On a GraphCut whose union-find has no element, get_partitions reads
\* subsets[0] of an empty vector for the reserve: the read value is arbitrary,
\* the loop body never runs. Either the reserve succeeds and two empty
\* sequences come back, or it fails and no value is returned.
GetPartitionsEmpty ==
    /\ pc = "returned"
    /\ DOMAIN result.uf.subsets = {}
    /\ \/ parts' = [P |-> <<>>, Q |-> <<>>] /\ pc' = "done"
       \/ parts' = <<>> /\ pc' = "fault"
    /\ CallerFrame

----------------------------------------------------------------------------
(* Both entry points on the input graphs.                                  *)

Inputs == SmallGraphs \cup {Graph5, Graph7}

Init == \E g \in Inputs : InitKarger(g) \/ InitStein(g)

Next ==
    \/ KargerStep(MaxDraw)
    \/ KargerReturn
    \/ PopLeaf
    \/ PopInternal
    \/ ContractStep(MaxDraw)
    \/ LeafDone
    \/ FirstDone
    \/ SecondDone
    \/ SteinReturn
    \/ GetPartitions
    \/ GetPartitionsEmpty

Spec == Init /\ [][Next]_vars

\* karger_union_find on the graph of minimal_example().
InitExample == InitKarger(ExampleGraph)

NextExample ==
    \/ KargerStep(MaxDraw)
    \/ KargerReturn
    \/ GetPartitions

SpecExample == InitExample /\ [][NextExample]_vars

----------------------------------------------------------------------------
(* Reading a returned cut (used to state the properties).                  *)

SeqSet(q) == {q[i] : i \in DOMAIN q}

Ascending(q) == \A i \in 1 .. (Len(q) - 1) : q[i] < q[i + 1]

\* The edges of the vector with one end in A and the other in B.
CrossCount(edges, A, B) ==
    Cardinality({k \in DOMAIN edges :
                    \/ edges[k].tail \in A /\ edges[k].head \in B
                    \/ edges[k].tail \in B /\ edges[k].head \in A})

Least(S) == CHOOSE c \in S : \A d \in S : c <= d

\* The minimum number of crossing edges over every partition of the vertices
\* into two nonempty sets (A is the side of vertex 0).
BruteForceMin(g) ==
    Least({CrossCount(g.edges, A, Nodes(g.n) \ A) :
             A \in {X \in SUBSET Nodes(g.n) : 0 \in X /\ X # Nodes(g.n)}})

ExampleMin == BruteForceMin(ExampleGraph)

Returned == pc \in {"returned", "done", "fault"}

----------------------------------------------------------------------------
(* Properties of the two algorithms (Spec, SpecExample).                   *)

\* C1: the returned cut_size is the number of edges of the original edge
\* list with one end in each of the two sequences of get_partitions().
\* Stated here for karger_union_find.
C1_CutSizeIsCrossingOfPartitions ==
    (algo = "karger" /\ pc = "done") =>
        result.cut_size = CrossCount(orig, SeqSet(parts.P), SeqSet(parts.Q))

\* C2: on a returned cut with exactly 2 subsets, get_partitions() puts
\* vertex i in the first sequence iff the root of i is the root of vertex 0.
C2_PartitionsFollowRoots ==
    (pc = "done" /\ result.uf.nb_subsets = 2) =>
        \A i \in Nodes(graph.n) :
            (i \in SeqSet(parts.P)) <=> SameSubset(result.uf, i, 0)

\* C3: karger_stein_union_find returns a cut produced by a leaf task: the
\* first leaf replaces the sentinel, the returned union-find covers the n
\* vertices in exactly 2 subsets, and the returned cut_size is the minimum of
\* the cut sizes the leaf tasks computed.
C3_SteinReturnsALeafCut ==
    (algo = "stein" /\ pc = "returned") =>
        /\ \E k \in DOMAIN leaves : result = leaves[k]
        /\ Elems(result.uf) = Nodes(graph.n)
        /\ result.uf.nb_subsets = 2
        /\ result.cut_size = Least({leaves[k].cut_size : k \in DOMAIN leaves})

C5_BaseCaseIsBruteForceMin ==
    (algo = "stein" /\ pc = "returned" /\ graph.n <= 6
       /\ Len(leaves) = 1 /\ result = leaves[1]) =>
        result.cut_size = BruteForceMin(graph)

\* C5, amended: for n <= 6 there is one leaf; its cut_size c is the number of
\* original edges crossing the 2-partition its contraction ended in, the
\* returned cut_size is min(n, c), and it is never below
\* min(n, brute-force minimum).
C5_BaseCaseIsSomeCut ==
    (algo = "stein" /\ pc = "returned" /\ graph.n <= 6) =>
        /\ Len(leaves) = 1
        /\ LET c == leaves[1]
               A == Class(c.uf, 0)
               b == BruteForceMin(graph)
           IN  /\ c.uf.nb_subsets = 2
               /\ A # Nodes(graph.n)
               /\ c.cut_size = CrossCount(orig, A, Nodes(graph.n) \ A)
               /\ result.cut_size =
                     (IF c.cut_size < graph.n THEN c.cut_size ELSE graph.n)
               /\ result.cut_size >= (IF b < graph.n THEN b ELSE graph.n)

C5_Witness ==
    /\ algo = "stein" /\ pc = "returned" /\ graph.n = 3
    /\ Len(leaves) = 1 /\ result = leaves[1]
    /\ result.cut_size > BruteForceMin(graph)

\* C9: both algorithms return 0 <= cut_size <= number of input edges.
C9_CutSizeWithinEdgeCount ==
    Returned => (result.cut_size >= 0 /\ result.cut_size <= Len(orig))

C9_Witness ==
    /\ algo = "stein" /\ pc = "returned"
    /\ Len(leaves) = 2
    /\ leaves[1].cut_size # leaves[2].cut_size
    /\ result.cut_size = 1

\* C10: the two sequences of get_partitions() on a returned cut are
\* ascending, disjoint and together hold every vertex of [0, n) once.
C10_PartitionsCoverVertices ==
    (Returned /\ pc # "returned") =>
        /\ pc = "done"
        /\ Ascending(parts.P) /\ Ascending(parts.Q)
        /\ SeqSet(parts.P) \cap SeqSet(parts.Q) = {}
        /\ SeqSet(parts.P) \cup SeqSet(parts.Q) = Nodes(graph.n)
        /\ Len(parts.P) + Len(parts.Q) = graph.n

ContractLoops == {"leaf_loop", "first_loop", "second_loop"}

\* The number of positions of the vector that hold the edge e.
Occurrences(edges, e) == Cardinality({k \in DOMAIN edges : edges[k] = e})

\* Two edge vectors with the same length and the same multiset of edges.
SamePermutation(a, b) ==
    /\ Len(a) = Len(b)
    /\ \A e \in SeqSet(a) \cup SeqSet(b) : Occurrences(a, e) = Occurrences(b, e)

\* The edges of the vector whose ends lie in different subsets of u.
Crossing(edges, u) ==
    Cardinality({k \in DOMAIN edges :
                    ~SameSubset(u, edges[k].tail, edges[k].head)})

\* C11: a contraction whose target is already the number of subsets runs no
\* iteration: karger_union_find on a graph of two vertices, and
\* contract(graph, k) with k = graph.uf.nb_subsets, draw nothing, swap
\* nothing, merge nothing, leave the cursor at the first edge, and every edge
\* of the vector is counted or copied as unconsumed.
C11_NoIterationAtTarget ==
    /\ (algo = "karger" /\ graph.n = 2) =>
          /\ start = 0 /\ m = Len(orig) - 1
          /\ graph.edges = orig
          /\ uf = UnionFind(2)
          /\ Returned =>
                /\ result.uf = UnionFind(2)
                /\ result.cut_size = Crossing(orig, UnionFind(2))
    /\ (pc \in ContractLoops /\ cur.uf.nb_subsets = nb_vertices) =>
          /\ start = 0 /\ m = Len(cur.edges) - 1
          /\ uf = cur.uf
    /\ (algo = "stein" /\ graph.n = 2) =>
          /\ start = 0
          /\ pc \in ContractLoops => cur.edges = orig
          /\ \A k \in DOMAIN leaves :
                /\ leaves[k].uf = UnionFind(2)
                /\ leaves[k].cut_size = Crossing(orig, UnionFind(2))

C11_Witness ==
    /\ algo = "karger" /\ pc = "returned"
    /\ graph.n = 2 /\ Len(orig) = 3
    /\ start = 0 /\ result.cut_size = 3

\* C12: karger_union_find changes the caller's graph only by reordering its
\* edge vector (n as it was, the same edges with the same multiplicities),
\* and karger_stein_union_find leaves its input graph as it was, edge order
\* included.
C12_InputGraphFrame ==
    [][ /\ graph'.n = graph.n
        /\ SamePermutation(graph'.edges, graph.edges)
        /\ SamePermutation(graph'.edges, orig')
        /\ orig' = orig
        /\ algo = "stein" => graph' = graph /\ graph'.edges = orig ]_vars

C12_Witness ==
    /\ algo = "karger" /\ pc = "returned"
    /\ graph.edges # orig
    /\ SamePermutation(graph.edges, orig)
    /\ start = 3

\* C13: contract(graph, t) on a popped task leaves the task's union-find
\* (ids, sizes, nb_subsets) and its n as they were and only permutes its
\* edges, so the second child starts from the union-find the first child
\* started from; the merges and compressions made for a child change no task
\* that is on the stack.
C13_ChildrenOwnTheirUnionFind ==
    [][ /\ (pc \in ContractLoops /\ pc' \in ContractLoops) =>
              /\ cur'.uf = cur.uf
              /\ cur'.n = cur.n
              /\ SamePermutation(cur'.edges, cur.edges)
        /\ (pc = "stein_main" /\ pc' \in ContractLoops) =>
              /\ uf' = cur'.uf /\ cur' = Top(graphs)
        /\ (pc = "first_loop" /\ pc' = "second_loop") =>
              /\ uf' = cur.uf /\ start' = 0
              /\ uf'.nb_subsets = cur.n
        /\ \A k \in DOMAIN graphs \cap DOMAIN graphs' :
              graphs'[k] = graphs[k] ]_vars

C13_Witness ==
    /\ pc = "second_loop" /\ start >= 1
    /\ cur.n = 7 /\ cur.uf = UnionFind(7)
    /\ cur.edges # orig
    /\ Len(graphs) = 1
    /\ graphs[1].uf.nb_subsets = 6
    /\ uf.nb_subsets = 6 /\ uf # graphs[1].uf

\* What holds of a contraction loop on the vector edges towards k subsets:
\* the cursor and m move together, the count of subsets is never below k,
\* and when an index is to be drawn the cursor is before the end, m is not
\* negative and every index of the distribution is a position of the vector
\* at or after the cursor.
LoopInRange(edges, k) ==
    /\ start + m = Len(edges) - 1
    /\ uf.nb_subsets >= k
    /\ ~LoopExit(uf, k) =>
          /\ start < Len(edges)
          /\ m >= 0
          /\ \A r \in 0 .. m :
                /\ start + 1 + r \in DOMAIN edges
                /\ start + 1 + r >= start + 1

\* C14: on a connected graph the contraction loop of karger_union_find and
\* of contract stays inside the edge vector (cursor before the end, m >= 0
\* and drawn index in [cursor, |edges| - 1] whenever an index is drawn) and
\* is left with exactly the target number of subsets.
C14_LoopStaysInRange ==
    /\ pc = "karger_loop" => LoopInRange(graph.edges, 2)
    /\ pc \in ContractLoops =>
          /\ 2 <= nb_vertices /\ nb_vertices <= cur.uf.nb_subsets
          /\ LoopInRange(cur.edges, nb_vertices)
    /\ (algo = "karger" /\ Returned) => result.uf.nb_subsets = 2
    /\ \A k \in DOMAIN leaves : leaves[k].uf.nb_subsets = 2
    /\ \A k \in DOMAIN graphs : graphs[k].uf.nb_subsets = graphs[k].n

C14_Witness ==
    /\ pc = "leaf_loop" /\ cur.n = 6
    /\ ~LoopExit(uf, nb_vertices)
    /\ start = 2 /\ m = 3
    /\ uf.nb_subsets = 5

\* A bound on the steps the main loop spends on a task of n components and
\* e edges that is on the stack: the pop, at most e iterations and the end of
\* each contraction, and the same for the two children of an internal task.
\* It is defined because the split target of an internal task is below n.
RECURSIVE Work(_, _)
Work(n, e) ==
    IF n <= 6 THEN e + 2
    ELSE 1 + 2 * (e + 1) + 2 * Work(SplitTarget(n), e)

RECURSIVE StackWork(_)
StackWork(st) ==
    IF st = <<>> THEN 0
    ELSE Work(Top(st).n, Len(Top(st).edges)) + StackWork(Pop(st))

\* A bound on the steps left before karger_stein_union_find returns.
Variant ==
    CASE pc = "stein_main"  -> StackWork(graphs) + 1
      [] pc = "leaf_loop"   -> StackWork(graphs) + (m + 1) + 2
      [] pc = "first_loop"  -> StackWork(graphs) + (m + 1) + 1
                                 + (Len(cur.edges) + 1)
                                 + 2 * Work(nb_vertices, Len(cur.edges)) + 1
      [] pc = "second_loop" -> StackWork(graphs) + (m + 1) + 1
                                 + Work(nb_vertices, Len(cur.edges)) + 1
      [] OTHER              -> 0

\* The main loop is not stuck: at its head a task is popped or the call
\* returns, inside a contraction the loop is left or an index can be drawn.
MainLoopCanStep ==
    /\ pc = "stein_main" => ENABLED (PopLeaf \/ PopInternal \/ SteinReturn)
    /\ pc \in ContractLoops =>
          LoopExit(uf, nb_vertices) \/ ENABLED ContractStep(MaxDraw)

\* C15: the main loop of karger_stein_union_find ends with an empty stack.
\* Every internal task (n > 6) is contracted to t = 1 + ceil(n / sqrt(2))
\* with 2 <= t < n, so a child has fewer components than its parent; only
\* tasks of at most 6 components are contracted towards 2; the loop is never
\* stuck and every step of it lowers a bound on the steps that are left, so
\* every task pushed is popped and the call returns, with an empty stack.
C15_SteinTerminates ==
    /\ [](pc \in {"first_loop", "second_loop"} =>
             /\ cur.n > 6
             /\ nb_vertices = SplitTarget(cur.n)
             /\ 2 <= nb_vertices /\ nb_vertices < cur.n)
    /\ [](pc = "second_loop" => Top(graphs).n < cur.n)
    /\ [](pc = "leaf_loop" => cur.n <= 6)
    /\ [](algo = "stein" => MainLoopCanStep /\ Variant >= 0)
    /\ []((algo = "stein" /\ Returned) => graphs = <<>> /\ Len(leaves) >= 1)
    /\ [][(algo = "stein" /\ ~Returned) => Variant' < Variant]_vars

C15_Witness ==
    /\ algo = "stein" /\ pc = "returned"
    /\ graph.n = 7 /\ graphs = <<>>
    /\ Len(leaves) = 2

\* No edge of the task has both ends in one subset of the task's union-find.
NoSelfLoop(task) ==
    \A k \in DOMAIN task.edges :
        ~SameSubset(task.uf, task.edges[k].tail, task.edges[k].head)

\* The child holds only edges of the parent, and every edge of the parent
\* whose ends the child's union-find separates as often as the parent does.
KeepsCrossEdges(child, edges) ==
    /\ SeqSet(child.edges) \subseteq SeqSet(edges)
    /\ \A e \in SeqSet(edges) :
          ~SameSubset(child.uf, e.tail, e.head) =>
              Occurrences(child.edges, e) = Occurrences(edges, e)

\* C16: every task on the stack, and the task popped from it, has
\* n = uf.nb_subsets; a task made by contract has no self-loop; and a child
\* holds every edge of its parent's vector whose ends lie in different
\* subsets of the child's union-find.
C16_TasksAreContractedGraphs ==
    /\ \A k \in DOMAIN graphs :
          /\ graphs[k].n = graphs[k].uf.nb_subsets
          /\ graphs[k].n = Cardinality(Partition(graphs[k].uf))
          /\ graphs[k].n < graph.n => NoSelfLoop(graphs[k])
    /\ (algo = "stein" /\ cur # NoGraph) =>
          /\ cur.n = cur.uf.nb_subsets
          /\ cur.n < graph.n => NoSelfLoop(cur)
    /\ pc = "second_loop" =>
          /\ Top(graphs).n < graph.n
          /\ KeepsCrossEdges(Top(graphs), cur.edges)
    /\ (pc = "stein_main" /\ cur # NoGraph /\ cur.n > 6) =>
          /\ Len(graphs) >= 2
          /\ KeepsCrossEdges(Top(graphs), cur.edges)
          /\ KeepsCrossEdges(Top(Pop(graphs)), cur.edges)

C16_Witness ==
    /\ pc = "stein_main" /\ cur # NoGraph /\ cur.n = 7
    /\ Len(graphs) = 2
    /\ Len(graphs[1].edges) = Len(cur.edges) - 2
    /\ Len(graphs[2].edges) = Len(cur.edges) - 1
    /\ NoSelfLoop(graphs[1]) /\ NoSelfLoop(graphs[2])

\* C17: karger_union_find returns a union-find with exactly two subsets and
\* a cut_size that is the number of edges of the whole input vector whose
\* ends lie in different subsets of it: the edges before the final cursor
\* have both ends in one subset, so the count over the edges past the cursor
\* misses none.
C17_KargerCountsEveryCrossingEdge ==
    (algo = "karger" /\ Returned) =>
        /\ result.uf.nb_subsets = 2
        /\ Cardinality(Partition(result.uf)) = 2
        /\ result.cut_size = Crossing(orig, result.uf)
        /\ result.cut_size = Crossing(graph.edges, result.uf)
        /\ \A k \in 1 .. start :
              SameSubset(result.uf, graph.edges[k].tail, graph.edges[k].head)

C17_Witness ==
    /\ algo = "karger" /\ pc = "returned"
    /\ graph.n = 7 /\ Len(orig) = 7
    /\ start = 6 /\ result.cut_size = 1
    /\ Crossing(orig, result.uf) = 1

\* C20: neither karger_union_find nor karger_stein_union_find returns a
\* cut_size below the minimum cut of the input graph, the least number of
\* crossing edges over the partitions of its vertices into two nonempty sets.
C20_NeverBelowTrueMinimum ==
    Returned =>
        result.cut_size >= BruteForceMin([n |-> graph.n, edges |-> orig])

----------------------------------------------------------------------------
(* Properties of the UnionFind object (SpecUF).                            *)

\* C6: in every state reached by merge, find and connected calls, nb_subsets
\* is the number of indices i with subsets[i].id = i, which is also the
\* number of distinct subsets of the partition.
C6_NbSubsetsIsRootCount ==
    pc = "object" =>
        /\ uf.nb_subsets = Cardinality(Roots(uf))
        /\ Cardinality(Roots(uf)) = Cardinality(Partition(uf))

C6_Witness ==
    /\ pc = "object" /\ op.name = "merge"
    /\ uf.nb_subsets < op.pre.nb_subsets
    /\ uf.nb_subsets = 1 /\ Deep(uf)

\* C7: merge(x, y) on elements of one subset leaves nb_subsets, every size
\* and the partition unchanged; on elements of two subsets it decrements
\* nb_subsets by one, makes exactly those two subsets one and leaves every
\* other subset as it was.
C7_MergeEffect ==
    (pc = "object" /\ op.name = "merge") =>
        LET pre == op.pre
            cx  == Class(pre, op.x)
            cy  == Class(pre, op.y)
        IN  IF SameSubset(pre, op.x, op.y)
            THEN /\ uf.nb_subsets = pre.nb_subsets
                 /\ \A i \in Elems(uf) :
                        uf.subsets[i].size = pre.subsets[i].size
                 /\ Partition(uf) = Partition(pre)
            ELSE /\ uf.nb_subsets = pre.nb_subsets - 1
                 /\ Partition(uf) =
                        (Partition(pre) \ {cx, cy}) \cup {cx \cup cy}

C7_Witness ==
    /\ pc = "object" /\ op.name = "merge"
    /\ ~SameSubset(op.pre, op.x, op.y)
    /\ op.pre.nb_subsets >= 3
    /\ Cardinality(Class(op.pre, op.x)) >= 2
    /\ op.pre.subsets[op.x].id # op.x

\* C8: find is idempotent and returns a root, and a call of find or
\* connected changes neither nb_subsets nor which elements share a root.
C8_FindIdempotent ==
    pc = "object" =>
        /\ \A x \in Elems(uf) :
              LET r1 == find(uf, x)
                  r2 == find(r1.uf, r1.ret)
              IN  /\ r2.ret = r1.ret
                  /\ r1.uf.subsets[r1.ret].id = r1.ret
        /\ op.name = "find" => uf.subsets[op.ret].id = op.ret
        /\ op.name \in {"find", "connected"} =>
              /\ uf.nb_subsets = op.pre.nb_subsets
              /\ Partition(uf) = Partition(op.pre)

C8_Witness ==
    /\ pc = "object" /\ op.name = "find"
    /\ Deep(op.pre) /\ uf # op.pre
    /\ op.ret # op.pre.subsets[op.x].id

\* The elements on the parent path from x to its root, the root excluded.
RECURSIVE PathTo(_, _)
PathTo(S, x) == IF S[x].id = x THEN {} ELSE {x} \cup PathTo(S, S[x].id)

\* C18: after find(x) has returned the root r, every element that was on the
\* parent path from x to r (x included, r excluded) has id r, every other
\* element has the id it had, and the sizes and nb_subsets are as before.
C18_FindCompressesItsPath ==
    (pc = "object" /\ op.name = "find") =>
        LET pre  == op.pre
            path == PathTo(pre.subsets, op.x)
        IN  /\ op.ret = RootOf(pre, op.x)
            /\ Elems(uf) = Elems(pre)
            /\ \A i \in Elems(uf) :
                  /\ i \in path => uf.subsets[i].id = op.ret
                  /\ i \notin path => uf.subsets[i].id = pre.subsets[i].id
                  /\ uf.subsets[i].size = pre.subsets[i].size
            /\ uf.nb_subsets = pre.nb_subsets

C18_Witness ==
    /\ pc = "object" /\ op.name = "find"
    /\ Cardinality(PathTo(op.pre.subsets, op.x)) = 3
    /\ Cardinality({i \in Elems(uf) : uf.subsets[i].id # op.pre.subsets[i].id})
          = 2

\* The sum of the stored sizes of the elements of R.
RECURSIVE SizeSum(_, _)
SizeSum(u, R) ==
    IF R = {} THEN 0
    ELSE LET r == CHOOSE i \in R : TRUE
         IN  u.subsets[r].size + SizeSum(u, R \ {r})

\* C19: the size stored at a root is the number of elements of its subset,
\* so the sizes of the roots sum to the number of elements; a merge of two
\* subsets puts the root of strictly smaller size under the other one, and
\* on equal sizes the root of y's subset under the root of x's subset.
C19_SizesAndUnionBySize ==
    pc = "object" =>
        /\ \A r \in Roots(uf) :
              uf.subsets[r].size = Cardinality(Class(uf, r))
        /\ SizeSum(uf, Roots(uf)) = Cardinality(Elems(uf))
        /\ (op.name = "merge" /\ ~SameSubset(op.pre, op.x, op.y)) =>
              LET pre == op.pre
                  i   == RootOf(pre, op.x)
                  j   == RootOf(pre, op.y)
                  si  == pre.subsets[i].size
                  sj  == pre.subsets[j].size
                  under == IF si < sj THEN i ELSE j
                  over  == IF si < sj THEN j ELSE i
              IN  /\ uf.subsets[under].id = over
                  /\ uf.subsets[over].id = over
                  /\ uf.subsets[over].size = si + sj
                  /\ pre.subsets[under].size <= pre.subsets[over].size
                  /\ si = sj => under = j

C19_Witness ==
    /\ pc = "object" /\ op.name = "merge"
    /\ ~SameSubset(op.pre, op.x, op.y)
    /\ op.pre.subsets[RootOf(op.pre, op.x)].size = 1
    /\ op.pre.subsets[RootOf(op.pre, op.y)].size = 2
    /\ uf.subsets[op.x].id = RootOf(op.pre, op.y)
    /\ uf.subsets[RootOf(op.pre, op.y)].size = 3

====
